---- MODULE Spec2Model ----
(***************************************************************************)
(* Tier/amount calculation engine of the staking front end                 *)
(* (src/src/lib/utils/tierUtils.ts, the module the hooks import).          *)
(*                                                                         *)
(* Numbers.  Token amounts are counted in units of 0.00000001 token        *)
(* (1e-8, the WAX ledger unit), so "0.00000012 WAX" is 12.  A tier's       *)
(* staked_up_to_percent is counted in tenths of a percent, so "0.5" is 5   *)
(* and "100" is 1000.  The JavaScript doubles of the source are modelled   *)
(* as exact rationals (a numerator and a positive denominator); the three  *)
(* non-finite doubles a division by zero produces are modelled by the      *)
(* kinds "inf" and "nan".                                                  *)
(***************************************************************************)
EXTENDS Integers, Sequences, FiniteSets, TLC

\* ------------------------------------------------------------------ bounds
MaxStake == 8        \* the stake is 0..MaxStake smallest representable steps
MaxPool == 8         \* the pool total is 0..MaxPool smallest representable steps
MaxTiers == 3        \* the tier table holds 0..MaxTiers tiers
MaxLen == 4          \* a balance string holds 0..MaxLen characters
MaxEdge == 4         \* stake and pool of an edge call are 0..MaxEdge ledger units

\* -------------------------------------------------------- program constants
FeeRateMille == 3          \* FEE_RATE = 0.003
BufferPercent == 101       \* withFee * 1.01
MarginPercent == 95        \* safeAmount * 0.95
DefaultDecimals == 8       \* decimals of "0.00000000 WAX"
PercentScale == 10         \* staked_up_to_percent carries one fractional digit

\* thresholds a tier table may carry: 10%, 50%, 90%, 99.8%, 100%
Thresholds == {100, 500, 900, 998, 1000}
\* number of fractional digits of the stake literal
DecimalsSet == {7, 8}

\* characters a balance string is written with: digits, the decimal point, a
\* letter and the space
Chars == {"0", "1", ".", "x", " "}

VARIABLES stakedAmount, totalStaked, decimals, tiers, out, tokenString, parsed,
          display, leaderboard

vars == <<stakedAmount, totalStaked, decimals, tiers, out, tokenString, parsed,
          display, leaderboard>>

\* ----------------------------------------------------------------- values
RECURSIVE Pow10(_)
Pow10(n) == IF n <= 0 THEN 1 ELSE 10 * Pow10(n - 1)

\* Math.pow(10, decimals), in ledger units: the smallest step of a literal
\* with d fractional digits
StepOf(d) == Pow10(DefaultDecimals - d)

Max(a, b) == IF a >= b THEN a ELSE b

\* floor and ceiling of n/d for d > 0
FloorDiv(n, d) == n \div d
CeilDiv(n, d) == -((-n) \div d)

\* a TierEntity: its key and its threshold
Tier(id, pct) == [tier |-> id, pct |-> pct]
\* the value of sortedTiers[i] when i is out of range
Undefined == [tier |-> 0, pct |-> 0]

Num(v) == [k |-> "num", v |-> v]
Infinity == [k |-> "inf", v |-> 0]
Absent == [k |-> "undefined", v |-> 0]

\* JS array read a[i], 0-based
At(a, i) == IF i >= 0 /\ i < Len(a) THEN a[i + 1] ELSE Undefined

\* ---------------------------------------------------------------- sorting
RECURSIVE InsertTier(_, _)
InsertTier(t, s) ==
    IF s = <<>> THEN <<t>>
    ELSE IF t.pct < Head(s).pct THEN <<t>> \o s
    ELSE <<Head(s)>> \o InsertTier(t, Tail(s))

RECURSIVE SortFrom(_, _)
SortFrom(a, acc) ==
    IF a = <<>> THEN acc ELSE SortFrom(Tail(a), InsertTier(Head(a), acc))

\* [...tiers].sort((a, b) => parseFloat(a.staked_up_to_percent) -
\*                           parseFloat(b.staked_up_to_percent)), a stable sort
SortTiers(a) == SortFrom(a, <<>>)

RECURSIVE FindFrom(_, _, _)
FindFrom(a, id, i) ==
    IF i >= Len(a) THEN -1
    ELSE IF At(a, i).tier = id THEN i
    ELSE FindFrom(a, id, i + 1)

\* sortedTiers.findIndex(t => t.tier === id)
findIndex(a, id) == FindFrom(a, id, 0)

\* ------------------------------------------------------------- tierUtils
\* (stakedValue / totalValue) * 100 as the fraction n/d of a percent;
\* 0 when the pool total is 0
calculateStakedPercent(stake, total) ==
    IF total = 0 THEN [n |-> 0, d |-> 1] ELSE [n |-> 100 * stake, d |-> total]

\* stakedPercent <= tierThreshold, the threshold counted in 1/PercentScale %
PercentLeq(pct, threshold) == PercentScale * pct.n <= threshold * pct.d

\* DetermineLoop falling back to the lowest tier when the share exceeds every
\* threshold
RECURSIVE DetermineLoop_FallsToLowest(_, _, _, _)
DetermineLoop_FallsToLowest(sortedTiers, pct, i, selectedTier) ==
    IF i >= Len(sortedTiers) THEN At(sortedTiers, 0)
    ELSE IF PercentLeq(pct, At(sortedTiers, i).pct)
         THEN (IF i > 0 THEN At(sortedTiers, i - 1) ELSE selectedTier)
         ELSE DetermineLoop_FallsToLowest(sortedTiers, pct, i + 1, At(sortedTiers, i))

\* the for loop of determineTier from index i on, selectedTier as carried
RECURSIVE DetermineLoop(_, _, _, _)
DetermineLoop(sortedTiers, pct, i, selectedTier) ==
    IF i >= Len(sortedTiers) THEN selectedTier
    ELSE IF PercentLeq(pct, At(sortedTiers, i).pct)
         THEN (IF i > 0 THEN At(sortedTiers, i - 1) ELSE selectedTier)
         ELSE DetermineLoop(sortedTiers, pct, i + 1, At(sortedTiers, i))

\* the tier determineTier picks for a share given as a fraction of a percent
TierForPercent(pct, tierList) ==
    LET sortedTiers == SortTiers(tierList)
    IN  DetermineLoop(sortedTiers, pct, 0, At(sortedTiers, 0))

\* determineTier answering an empty pool with the first tier of the caller's
\* table instead of the first of the sorted one
determineTier_FirstSupplied(stake, total, tierList) ==
    IF total = 0 THEN At(tierList, 0)
    ELSE TierForPercent(calculateStakedPercent(stake, total), tierList)

determineTier(stake, total, tierList) ==
    TierForPercent(calculateStakedPercent(stake, total), tierList)

\* calculateSafeUnstakeAmount without the Math.max(0, ...) on safeAmount
calculateSafeUnstakeAmount_NoMax(stake, dec, total, tierList, currentTier) ==
    IF total = 0 \/ stake = 0 THEN 0
    ELSE LET sortedTiers == SortTiers(tierList)
             currentTierIndex == findIndex(sortedTiers, currentTier.tier)
         IN  IF currentTierIndex <= 0 THEN Max(0, stake - 1)
             ELSE LET prevMille == At(sortedTiers, currentTierIndex - 1).pct
                      one == 100 * PercentScale
                      sn == IF prevMille < one
                            THEN stake * (one - prevMille) - prevMille * total
                            ELSE 0
                      sd == IF prevMille < one THEN one - prevMille ELSE 1
                      step == StepOf(dec)
                  IN  FloorDiv(MarginPercent * sn, 100 * sd * step) * step

\* calculateSafeUnstakeAmount without the 5% safety margin
calculateSafeUnstakeAmount_NoMargin(stake, dec, total, tierList, currentTier) ==
    IF total = 0 \/ stake = 0 THEN 0
    ELSE LET sortedTiers == SortTiers(tierList)
             currentTierIndex == findIndex(sortedTiers, currentTier.tier)
         IN  IF currentTierIndex <= 0 THEN Max(0, stake - 1)
             ELSE LET prevMille == At(sortedTiers, currentTierIndex - 1).pct
                      one == 100 * PercentScale
                      sn == IF prevMille < one
                            THEN Max(0, stake * (one - prevMille) - prevMille * total)
                            ELSE 0
                      sd == IF prevMille < one THEN one - prevMille ELSE 1
                      step == StepOf(dec)
                  IN  FloorDiv(sn, sd * step) * step

\* calculateSafeUnstakeAmount: a number of ledger units
calculateSafeUnstakeAmount(stake, dec, total, tierList, currentTier) ==
    IF total = 0 \/ stake = 0 THEN 0
    ELSE LET sortedTiers == SortTiers(tierList)
             currentTierIndex == findIndex(sortedTiers, currentTier.tier)
         IN  IF currentTierIndex <= 0 THEN Max(0, stake - 1)
             ELSE LET prevMille == At(sortedTiers, currentTierIndex - 1).pct
                      \* prevTierThreshold = prevMille / (100 * PercentScale)
                      one == 100 * PercentScale
                      \* safeAmount = max(0, stake - minimumAmount) = sn / sd
                      sn == IF prevMille < one
                            THEN Max(0, stake * (one - prevMille) - prevMille * total)
                            ELSE 0
                      sd == IF prevMille < one THEN one - prevMille ELSE 1
                      \* withMargin = safeAmount * 0.95, floored to dec digits
                      step == StepOf(dec)
                  IN  FloorDiv(MarginPercent * sn, 100 * sd * step) * step

\* calculateAmountForNextTier: Num(units) or Infinity
calculateAmountForNextTier(stake, total, currentTier, nextTier, dec) ==
    LET one == 100 * PercentScale
        \* amountForNextTier = (nextThreshold*poolTotal - currentStake)
        \*                     / (1 - nextThreshold) = an / ad
        an == nextTier.pct * total - one * stake
        ad == one - nextTier.pct
        step == StepOf(dec)
    IN  IF ad = 0
        THEN (IF an > 0 THEN Infinity ELSE Num(0))   \* +Infinity; NaN, -Infinity -> 0
        ELSE IF (an > 0 /\ ad > 0) \/ (an < 0 /\ ad < 0)
        THEN LET pn == IF ad > 0 THEN an ELSE -an
                 pd == IF ad > 0 THEN ad ELSE -ad
                 \* withBuffer = an/ad / (1 - FEE_RATE) * 1.01
                 wn == pn * 10 * BufferPercent
                 wd == pd * (1000 - FeeRateMille)
             IN  Num(CeilDiv(wn, wd * step) * step)
        ELSE Num(0)

\* a progress value: the fraction n/d of a percent
Frac(n, d) == [n |-> n, d |-> d]

\* withFee of calculateAmountForNextTier as an exact fraction of a ledger
\* unit: the shortfall (nextThreshold * poolTotal - currentStake)
\* / (1 - nextThreshold) divided by (1 - FEE_RATE) when it is positive, else 0;
\* d = 0 stands for +Infinity
withFee(stake, total, nextTier) ==
    LET one == 100 * PercentScale
        an == nextTier.pct * total - one * stake
        ad == one - nextTier.pct
    IN  IF ad = 0 THEN (IF an > 0 THEN Frac(1, 0) ELSE Frac(0, 1))
        ELSE IF an > 0 THEN Frac(one * an, (one - FeeRateMille) * ad)
        ELSE Frac(0, 1)

\* Math.min(100, Math.max(0, x)) for x = n/d, d > 0
Clamp(n, d) ==
    IF n < 0 THEN Frac(0, 1) ELSE IF n > 100 * d THEN Frac(100, 1) ELSE Frac(n, d)

\* the value calculateTierProgress returns when it returns null
Null ==
    [isNull |-> TRUE, currentTier |-> Undefined, nextTier |-> Undefined,
     prevTier |-> Undefined, progress |-> Frac(0, 1),
     additionalAmountNeeded |-> Absent, totalAmountForNext |-> Absent,
     safeUnstakeAmount |-> 0]

\* ProgressOf without the clamp to [0, 100]
ProgressOf_Unclamped(stake, total, currentTier, nextTier) ==
    IF nextTier = Undefined THEN Frac(100, 1)
    ELSE LET rangeSize == nextTier.pct - currentTier.pct
         IN  IF rangeSize > 0
             THEN Frac(100 * (100 * PercentScale * stake - currentTier.pct * total),
                       total * rangeSize)
             ELSE Frac(100, 1)

\* ProgressOf leaving the progress at 0 when the range has no width
ProgressOf_ZeroWidthIsZero(stake, total, currentTier, nextTier) ==
    IF nextTier = Undefined THEN Frac(100, 1)
    ELSE LET rangeSize == nextTier.pct - currentTier.pct
         IN  IF rangeSize > 0
             THEN Clamp(100 * (100 * PercentScale * stake - currentTier.pct * total),
                        total * rangeSize)
             ELSE Frac(0, 1)

\* ProgressOf reporting no progress where there is no next tier
ProgressOf_CeilingIsZero(stake, total, currentTier, nextTier) ==
    IF nextTier = Undefined THEN Frac(0, 1)
    ELSE LET rangeSize == nextTier.pct - currentTier.pct
         IN  IF rangeSize > 0
             THEN Clamp(100 * (100 * PercentScale * stake - currentTier.pct * total),
                        total * rangeSize)
             ELSE Frac(100, 1)

\* ProgressOf measuring the share against the next threshold alone, from 0
ProgressOf_ShareOfNext(stake, total, currentTier, nextTier) ==
    IF nextTier = Undefined THEN Frac(100, 1)
    ELSE LET rangeSize == nextTier.pct - currentTier.pct
         IN  IF rangeSize > 0
             THEN Clamp(100 * (100 * PercentScale * stake), total * nextTier.pct)
             ELSE Frac(100, 1)

\* progress toward the next tier, from the thresholds of the current and the
\* next tier; nextTier = Undefined when there is none
ProgressOf(stake, total, currentTier, nextTier) ==
    IF nextTier = Undefined THEN Frac(100, 1)
    ELSE LET rangeSize == nextTier.pct - currentTier.pct
         IN  IF rangeSize > 0
             \* ((stakedPercent - currentTierThreshold) / rangeSize) * 100
             THEN Clamp(100 * (100 * PercentScale * stake - currentTier.pct * total),
                        total * rangeSize)
             ELSE Frac(100, 1)

\* the body of calculateTierProgress past its check of the parsed amounts
TierProgressRecord(stake, dec, total, tierList) ==
    LET currentTier == determineTier(stake, total, tierList)
        sortedTiers == SortTiers(tierList)
        currentTierIndex == findIndex(sortedTiers, currentTier.tier)
        nextTier == IF currentTierIndex + 1 < Len(sortedTiers)
                    THEN At(sortedTiers, currentTierIndex + 1) ELSE Undefined
        prevTier == IF currentTierIndex - 1 >= 0
                    THEN At(sortedTiers, currentTierIndex - 1) ELSE Undefined
        additional == IF nextTier # Undefined
                      THEN calculateAmountForNextTier(stake, total, currentTier,
                                                      nextTier, dec)
                      ELSE Absent
    IN  IF currentTierIndex = -1 THEN Null
        ELSE [isNull |-> FALSE,
              currentTier |-> currentTier,
              nextTier |-> nextTier,
              prevTier |-> prevTier,
              progress |-> ProgressOf(stake, total, currentTier, nextTier),
              additionalAmountNeeded |-> additional,
              totalAmountForNext |->
                  IF additional.k = "num" THEN Num(stake + additional.v)
                  ELSE additional,
              safeUnstakeAmount |->
                  calculateSafeUnstakeAmount(stake, dec, total, tierList, currentTier)]

\* calculateTierProgress answering an empty pool with a filled record, as the
\* hook once did
calculateTierProgress_ZeroPoolRecord(stake, dec, total, tierList) ==
    IF total = 0
    THEN [Null EXCEPT !.isNull = FALSE, !.currentTier = At(tierList, 0),
                      !.nextTier = At(tierList, 1),
                      !.additionalAmountNeeded = Num(0),
                      !.totalAmountForNext = Num(0)]
    ELSE TierProgressRecord(stake, dec, total, tierList)

\* calculateTierProgress taking the next tier from the caller's order
calculateTierProgress_NextFromCaller(stake, dec, total, tierList) ==
    IF total = 0 THEN Null
    ELSE LET r == TierProgressRecord(stake, dec, total, tierList)
             i == findIndex(tierList, r.currentTier.tier)
         IN  IF r.isNull THEN r ELSE [r EXCEPT !.nextTier = At(tierList, i + 1)]

\* calculateTierProgress without the check of the index: a resolved tier that
\* is not in the table gives a record whose next tier is the element at -1 + 1
calculateTierProgress_NoIndexCheck(stake, dec, total, tierList) ==
    IF total = 0 THEN Null
    ELSE LET r == TierProgressRecord(stake, dec, total, tierList)
         IN  IF r.isNull
             THEN [Null EXCEPT !.isNull = FALSE,
                               !.currentTier = determineTier(stake, total, tierList),
                               !.nextTier = At(SortTiers(tierList), 0)]
             ELSE r

\* the amounts never parse to NaN (parseTokenString yields amount || 0), so
\* the check that is left is the one of the pool total
calculateTierProgress(stake, dec, total, tierList) ==
    IF total = 0 THEN Null
    ELSE TierProgressRecord(stake, dec, total, tierList)

\* isTierUpgradeAvailable comparing the indices with >= instead of >
isTierUpgradeAvailable_OrEqual(stake, total, currentTier, tierList) ==
    LET sortedTiers == SortTiers(tierList)
        currentTierIndex == findIndex(sortedTiers, currentTier.tier)
    IN  IF currentTierIndex >= Len(sortedTiers) - 1 THEN FALSE
        ELSE findIndex(sortedTiers, determineTier(stake, total, tierList).tier)
                 >= currentTierIndex

isTierUpgradeAvailable(stake, total, currentTier, tierList) ==
    LET sortedTiers == SortTiers(tierList)
        currentTierIndex == findIndex(sortedTiers, currentTier.tier)
    IN  \* already at max tier?
        IF currentTierIndex >= Len(sortedTiers) - 1 THEN FALSE
        ELSE LET actualTier == determineTier(stake, total, tierList)
                 actualTierIndex == findIndex(sortedTiers, actualTier.tier)
             IN  actualTierIndex > currentTierIndex

\* ------------------------------------------------- exceptions of tierUtils
\* Every function of tierUtils is try { body } catch { return fallback }.
\* Reading a property of x raises a TypeError when x is undefined; the call
\* raises to its caller only when the body raises and the handler raises too.
ReadRaises(x) == x = Undefined
Escapes(thrown, handlerRaises) == thrown /\ handlerRaises

\* determineTier raising 'No tier data available' from its handler for an
\* empty table, after the body read a property of the missing highest tier
determineTierRaises_NoTierData(stake, total, tierList) ==
    Escapes(stake # 0 /\ total # 0 /\ ReadRaises(At(SortTiers(tierList), 0)),
            Len(tierList) = 0)

\* determineTier: the body reads staked_up_to_percent of sortedTiers[i] for
\* i below the length; the handler returns tiers[0]
determineTierRaises(stake, total, tierList) ==
    LET sortedTiers == SortTiers(tierList)
    IN  Escapes(\E i \in 0..(Len(sortedTiers) - 1) : ReadRaises(At(sortedTiers, i)),
                FALSE)

\* calculateSafeUnstakeAmount: past the zero check, the findIndex callback
\* reads currentTier.tier for each element of the table
SafeUnstakeThrown(stake, total, tierList, currentTier) ==
    stake # 0 /\ total # 0 /\ Len(tierList) > 0 /\ ReadRaises(currentTier)

\* calculateAmountForNextTier: the body reads nextTier.staked_up_to_percent
AmountForNextThrown(nextTier) == ReadRaises(nextTier)

\* calculateTierProgress: past the null check, the findIndex callback reads
\* currentTier.tier for each element of the table
TierProgressThrown(stake, total, tierList) ==
    total # 0 /\ Len(tierList) > 0 /\ ReadRaises(determineTier(stake, total, tierList))

\* the value of a call: the fallback of the handler when the body raised
Caught(thrown, value, fallback) == IF thrown THEN fallback ELSE value

\* ------------------------------------------------------------ tokenUtils
\* A string is the sequence of its characters; NoString is undefined.
NoString == <<"undefined">>
Falsy(str) == str = NoString \/ str = <<>>
WAX == <<"W", "A", "X">>
Digits == <<"0", "1", "2", "3", "4", "5", "6", "7", "8", "9">>
IsDigit(c) == \E i \in 1..10 : Digits[i] = c
DigitValue(c) == (CHOOSE i \in 1..10 : Digits[i] = c) - 1

\* String.prototype.trim over the space
RECURSIVE trim(_)
trim(str) ==
    IF str = <<>> THEN str
    ELSE IF Head(str) = " " THEN trim(Tail(str))
    ELSE IF str[Len(str)] = " " THEN trim(SubSeq(str, 1, Len(str) - 1))
    ELSE str

\* position of the first sep in str, 0 when there is none
RECURSIVE IndexOfChar(_, _, _)
IndexOfChar(str, sep, i) ==
    IF i > Len(str) THEN 0
    ELSE IF str[i] = sep THEN i ELSE IndexOfChar(str, sep, i + 1)

includes(str, sep) == IndexOfChar(str, sep, 1) # 0

\* str.split(sep)[k], NoString when the split has no element k
RECURSIVE split(_, _, _)
split(str, sep, k) ==
    LET i == IndexOfChar(str, sep, 1)
    IN  IF k = 0 THEN (IF i = 0 THEN str ELSE SubSeq(str, 1, i - 1))
        ELSE IF i = 0 THEN NoString
        ELSE split(SubSeq(str, i + 1, Len(str)), sep, k - 1)

\* the longest run of digits str begins with
RECURSIVE DigitPrefix(_)
DigitPrefix(str) ==
    IF str # <<>> /\ IsDigit(Head(str)) THEN <<Head(str)>> \o DigitPrefix(Tail(str))
    ELSE <<>>

RECURSIVE DigitsValue(_)
DigitsValue(ds) ==
    IF ds = <<>> THEN 0
    ELSE 10 * DigitsValue(SubSeq(ds, 1, Len(ds) - 1)) + DigitValue(ds[Len(ds)])

\* a number n / d with d a power of ten, in lowest such terms
RECURSIVE Decimal(_, _)
Decimal(n, d) ==
    IF n = 0 THEN Frac(0, 1)
    ELSE IF d > 1 /\ n % 10 = 0 THEN Decimal(n \div 10, d \div 10)
    ELSE Frac(n, d)

NaN == [n |-> 0, d |-> 0]

\* the value of the longest prefix digits [. digits] of str, NaN when that
\* prefix holds no digit
ParseUnsigned(str) ==
    LET int == DigitPrefix(str)
        rest == SubSeq(str, Len(int) + 1, Len(str))
        frac == IF rest # <<>> /\ Head(rest) = "." THEN DigitPrefix(Tail(rest))
                ELSE <<>>
    IN  IF int = <<>> /\ frac = <<>> THEN NaN
        ELSE Decimal(DigitsValue(int \o frac), Pow10(Len(frac)))

\* parseFloat: an optional minus sign, then the unsigned literal
parseFloat(str) ==
    IF str # <<>> /\ Head(str) = "-"
    THEN LET x == ParseUnsigned(Tail(str)) IN Frac(-x.n, x.d)
    ELSE ParseUnsigned(str)

\* what parseTokenString returns on a missing string and from its catch
DefaultToken ==
    [done |-> TRUE, amount |-> Frac(0, 1), symbol |-> WAX,
     decimals |-> DefaultDecimals]

\* the amount, symbol and decimals of the record parseTokenString returns;
\* toFixed(decimals) raises only for decimals > 100 and is inside the try
parseTokenString(str) ==
    IF Falsy(str) THEN DefaultToken
    ELSE
    LET p0 == split(trim(str), " ", 0)
        p1 == split(trim(str), " ", 1)
        amountStr == IF Falsy(p0) THEN <<"0">> ELSE p0
        symbol == IF Falsy(p1) THEN WAX ELSE p1
        number == parseFloat(amountStr)
        amount == IF number = NaN THEN Frac(0, 1) ELSE number
    IN  [done |-> TRUE,
         amount |-> amount,
         symbol |-> symbol,
         decimals |-> IF includes(amountStr, ".")
                      THEN Len(split(amountStr, ".", 1))
                      ELSE DefaultDecimals]

\* ------------------------------------------------------ useTierCalculation
\* tiers.find(t => t.tier === id)
find(a, id) ==
    LET i == findIndex(a, id) IN IF i = -1 THEN Undefined ELSE At(a, i)

\* the progress the hook computes for the stored tier: the position of the
\* share between the previous tier's threshold and the stored tier's own
AdjustedProgress(stake, total, userTier, prevTier, nextTier) ==
    IF nextTier = Undefined THEN Frac(100, 1)
    ELSE LET prevTierThreshold == IF prevTier # Undefined THEN prevTier.pct ELSE 0
             currentRange == userTier.pct - prevTierThreshold
         IN  IF currentRange > 0
             THEN Clamp(100 * (100 * PercentScale * stake - prevTierThreshold * total),
                        total * currentRange)
             ELSE Frac(0, 1)

\* The hook's result for the snapshots (loaded = both are defined), the tier
\* stored on the stake record, and the table. requireOk: the build resolves
\* the require('../utils/tierUtils') inside the mismatch branch; when it does
\* not, the exception is caught there and the amounts of progress are kept.
useTierCalculation(loaded, stake, dec, total, storedTier, tierList, requireOk) ==
    IF ~loaded \/ Len(tierList) = 0 THEN Null
    ELSE
    LET progress == calculateTierProgress(stake, dec, total, tierList)
        userTier == find(tierList, storedTier)
        sortedTiers == SortTiers(tierList)
        userTierIndex == findIndex(sortedTiers, storedTier)
        nextTier == IF userTierIndex + 1 < Len(sortedTiers)
                    THEN At(sortedTiers, userTierIndex + 1) ELSE Undefined
        prevTier == IF userTierIndex - 1 >= 0
                    THEN At(sortedTiers, userTierIndex - 1) ELSE Undefined
        recalculate == nextTier # Undefined /\ requireOk
        additional == IF recalculate
                      THEN calculateAmountForNextTier(stake, total, userTier,
                                                      nextTier, dec)
                      ELSE progress.additionalAmountNeeded
    IN  IF progress.isNull THEN Null
        ELSE IF /\ progress.currentTier.tier # storedTier
                /\ userTier # Undefined
                /\ userTierIndex # -1
        THEN [progress EXCEPT
                !.currentTier = userTier,
                !.nextTier = nextTier,
                !.prevTier = prevTier,
                !.progress = AdjustedProgress(stake, total, userTier, prevTier, nextTier),
                !.totalAmountForNext =
                    IF ~recalculate THEN progress.totalAmountForNext
                    ELSE IF additional.k = "num" THEN Num(stake + additional.v)
                    ELSE additional,
                !.additionalAmountNeeded = additional]
        ELSE progress

\* ------------------------------------------------------------ the machine
\* what the last call returned: the operation, the tier arguments it was
\* given, and its result in the field of its type
NoCall ==
    [op |-> "none", currentTier |-> Undefined, nextTier |-> Undefined,
     tier |-> Undefined, amount |-> Absent, progress |-> Null,
     loaded |-> TRUE, storedTier |-> 0, available |-> FALSE,
     raised |-> FALSE]

\* the keys a stake record may carry: those of the table and one that is not
\* in it
StoredKeys == 1..(Len(tiers) + 1)

\* the tier tables a caller may pass: any order, distinct thresholds,
\* keys 1..n in the caller's order
TierTables ==
    UNION {{[i \in 1..n |-> Tier(i, f[i])] :
               f \in {g \in [1..n -> Thresholds] :
                         \A i, j \in 1..n : i # j => g[i] # g[j]}} : n \in 0..MaxTiers}

\* the components before they are mounted
NoEvent == [op |-> "none", nan |-> FALSE, v |-> 0]
NotDisplayed == [bufferPercent |-> 0, saved |-> NoString, event |-> NoEvent]
NotMounted ==
    [mounted |-> FALSE, isLoading |-> FALSE, closureIsLoading |-> FALSE,
     started |-> 0, pending |-> {}, shown |-> 0, ticks |-> 0]
Components == <<display, leaderboard>>

\* no string handed to the parser, nothing parsed
NotParsed ==
    [done |-> FALSE, amount |-> Frac(0, 1), symbol |-> <<>>, decimals |-> 0]
ParserState == <<tokenString, parsed>>

TypeOK ==
    /\ decimals \in DecimalsSet
    /\ stakedAmount \in 0..(MaxStake * StepOf(decimals))
    /\ totalStaked \in 0..(MaxPool * StepOf(decimals))
    /\ tiers \in TierTables

\* the snapshots the collaborators hand to the core; no call made yet
Init ==
    /\ decimals \in DecimalsSet
    /\ \E k \in 0..MaxStake : stakedAmount = k * StepOf(decimals)
    /\ \E k \in 0..MaxPool : totalStaked = k * StepOf(decimals)
    /\ tiers \in TierTables
    /\ out = NoCall
    /\ tokenString = NoString
    /\ parsed = NotParsed
    /\ display = NotDisplayed /\ leaderboard = NotMounted

Inputs == <<stakedAmount, totalStaked, decimals, tiers>>

\* the caller's array after a function sorted the array itself
tiersAfterCall_SortedInPlace(tierList) == SortTiers(tierList)

\* the caller's array after a function ran [...tiers].sort(...): the spread
\* makes a copy, and the copy is what the sort orders
tiersAfterCall(tierList) == tierList

\* what a call of tierUtils or of the hook leaves behind: the amounts are
\* strings the functions only parse
Frame ==
    /\ tiers' = tiersAfterCall(tiers)
    /\ UNCHANGED <<stakedAmount, totalStaked, decimals, ParserState, Components>>

\* The core keeps no state between calls: every call computes from the
\* snapshot alone, so a call is taken from the state that holds no result.
Idle == out.op = "none"

DetermineTier ==
    /\ Idle
    /\ out' = [NoCall EXCEPT !.op = "determineTier",
                             !.tier = determineTier(stakedAmount, totalStaked, tiers)]
    /\ Frame

CalculateSafeUnstakeAmount ==
    \E i \in 1..Len(tiers) :
        /\ Idle
        /\ out' = [NoCall EXCEPT
                     !.op = "calculateSafeUnstakeAmount",
                     !.currentTier = tiers[i],
                     !.amount = Num(calculateSafeUnstakeAmount(
                                   stakedAmount, decimals, totalStaked, tiers, tiers[i]))]
        /\ Frame

\* called with the resolved tier as currentTier (which the function does not
\* read) and any tier of the table as nextTier
CalculateAmountForNextTier ==
    \E j \in 1..Len(tiers) :
        /\ Idle
        /\ out' = [NoCall EXCEPT
                     !.op = "calculateAmountForNextTier",
                     !.nextTier = tiers[j],
                     !.amount = calculateAmountForNextTier(
                                   stakedAmount, totalStaked,
                                   determineTier(stakedAmount, totalStaked, tiers),
                                   tiers[j], decimals)]
        /\ Frame

CalculateTierProgress ==
    /\ Idle
    /\ out' = [NoCall EXCEPT
                 !.op = "calculateTierProgress",
                 !.progress = calculateTierProgress(
                                  stakedAmount, decimals, totalStaked, tiers)]
    /\ Frame

\* called with the tier stored on the stake record, of which only the key is
\* read
IsTierUpgradeAvailable ==
    \E key \in StoredKeys :
        /\ Idle
        /\ out' = [NoCall EXCEPT
                     !.op = "isTierUpgradeAvailable",
                     !.storedTier = key,
                     !.available = isTierUpgradeAvailable(
                                      stakedAmount, totalStaked, Tier(key, 0), tiers)]
        /\ Frame

\* called with both snapshots and the key stored on the stake record, or
\* before the snapshots are loaded (when there is no stored key yet)
UseTierCalculation ==
    \E loaded \in BOOLEAN, requireOk \in BOOLEAN :
    \E key \in (IF loaded THEN StoredKeys ELSE {0}) :
        /\ Idle
        /\ out' = [NoCall EXCEPT
                     !.op = "useTierCalculation",
                     !.loaded = loaded,
                     !.storedTier = key,
                     !.progress = useTierCalculation(
                                      loaded, stakedAmount, decimals, totalStaked,
                                      key, tiers, requireOk)]
        /\ Frame

Next ==
    \/ DetermineTier
    \/ CalculateSafeUnstakeAmount
    \/ CalculateAmountForNextTier
    \/ CalculateTierProgress
    \/ IsTierUpgradeAvailable
    \/ UseTierCalculation

Spec == Init /\ [][Next]_vars

\* the strings a caller may hand to parseTokenString: undefined, and every
\* string of up to MaxLen characters
TokenStrings ==
    {NoString} \cup UNION {[1..n -> Chars] : n \in 0..MaxLen}

InitParser ==
    /\ tokenString \in TokenStrings
    /\ parsed = NotParsed
    /\ display = NotDisplayed /\ leaderboard = NotMounted
    /\ stakedAmount = 0 /\ totalStaked = 0 /\ decimals = DefaultDecimals
    /\ tiers = <<>>
    /\ out = NoCall

ParseTokenString ==
    /\ ~parsed.done
    /\ parsed' = parseTokenString(tokenString)
    /\ UNCHANGED <<Inputs, out, tokenString, Components>>

NextParser == ParseTokenString

SpecParser == InitParser /\ [][NextParser]_vars

\* ------------------------------------------------- calls at the edges
\* tables whose tiers may share a threshold, any order, keys 1..n
EdgeThresholds == {100, 500}
EdgeTables ==
    UNION {{[i \in 1..n |-> Tier(i, f[i])] : f \in [1..n -> EdgeThresholds]}
              : n \in 0..MaxTiers}

InitEdge ==
    /\ decimals = DefaultDecimals
    /\ stakedAmount \in 0..MaxEdge
    /\ totalStaked \in 0..MaxEdge
    /\ tiers \in EdgeTables
    /\ out = NoCall
    /\ tokenString = NoString
    /\ parsed = NotParsed
    /\ display = NotDisplayed /\ leaderboard = NotMounted

\* the tier arguments a caller may pass: a tier of the table, a tier that is
\* not in it, or undefined
TierArguments ==
    {tiers[i] : i \in 1..Len(tiers)} \cup {Tier(Len(tiers) + 1, 100), Undefined}

DetermineTierAtEdge ==
    /\ Idle
    /\ out' = [NoCall EXCEPT
                 !.op = "determineTier",
                 !.raised = determineTierRaises(stakedAmount, totalStaked, tiers),
                 !.tier = determineTier(stakedAmount, totalStaked, tiers)]
    /\ Frame

SafeUnstakeAtEdge ==
    \E currentTier \in TierArguments :
        LET thrown == SafeUnstakeThrown(stakedAmount, totalStaked, tiers, currentTier)
        IN  /\ Idle
            /\ out' = [NoCall EXCEPT
                         !.op = "calculateSafeUnstakeAmount",
                         !.currentTier = currentTier,
                         !.raised = Escapes(thrown, FALSE),
                         !.amount = Caught(thrown,
                                           Num(calculateSafeUnstakeAmount(
                                                   stakedAmount, decimals, totalStaked,
                                                   tiers, currentTier)),
                                           Num(0))]
            /\ Frame

AmountForNextAtEdge ==
    \E nextTier \in TierArguments :
        LET thrown == AmountForNextThrown(nextTier)
        IN  /\ Idle
            /\ out' = [NoCall EXCEPT
                         !.op = "calculateAmountForNextTier",
                         !.nextTier = nextTier,
                         !.raised = Escapes(thrown, FALSE),
                         !.amount = Caught(thrown,
                                           calculateAmountForNextTier(
                                               stakedAmount, totalStaked,
                                               determineTier(stakedAmount, totalStaked, tiers),
                                               nextTier, decimals),
                                           Num(0))]
            /\ Frame

TierProgressAtEdge ==
    LET thrown == TierProgressThrown(stakedAmount, totalStaked, tiers)
    IN  /\ Idle
        /\ out' = [NoCall EXCEPT
                     !.op = "calculateTierProgress",
                     !.raised = Escapes(thrown, FALSE),
                     !.progress = Caught(thrown,
                                         calculateTierProgress(
                                             stakedAmount, decimals, totalStaked, tiers),
                                         Null)]
        /\ Frame

NextEdge ==
    \/ DetermineTierAtEdge
    \/ SafeUnstakeAtEdge
    \/ AmountForNextAtEdge
    \/ TierProgressAtEdge

SpecEdge == InitEdge /\ [][NextEdge]_vars

\* ------------------------------------- TierDisplay and BufferSelector
\* bufferPercent is counted in tenths of a percent, the values an input event
\* carries in hundredths; the persisted value is the string toString gives.
DefaultBuffer == 50        \* 5.0
MaxBuffer == 1000          \* 100

RECURSIVE DigitsOf(_)
DigitsOf(n) ==
    IF n < 10 THEN <<Digits[n + 1]>>
    ELSE DigitsOf(n \div 10) \o <<Digits[(n % 10) + 1]>>

\* bufferPercent.toString()
toString(t) ==
    IF t < 0 THEN <<"-">> \o DigitsOf((-t) \div 10)
                      \o (IF (-t) % 10 = 0 THEN <<>> ELSE <<".", Digits[((-t) % 10) + 1]>>)
    ELSE DigitsOf(t \div 10)
             \o (IF t % 10 = 0 THEN <<>> ELSE <<".", Digits[(t % 10) + 1]>>)

\* the initializer of useState: saved ? parseFloat(saved) : 5.0
InitialBuffer(saved) ==
    IF Falsy(saved) THEN DefaultBuffer
    ELSE LET x == parseFloat(saved) IN (10 * x.n) \div x.d

\* Number(x.toFixed(1)) for x given in hundredths: the nearest tenth; a
\* value half way between two tenths goes to either, as its double decides
RoundToTenths(h) ==
    IF h % 10 = 5 THEN {h \div 10, h \div 10 + 1}
    ELSE IF h % 10 < 5 THEN {h \div 10} ELSE {h \div 10 + 1}

\* adjustBuffer setting the new value without the check of the range
adjustBuffer_Unchecked(bufferPercent, delta) == bufferPercent + delta

\* TierDisplay.adjustBuffer: the value setBufferPercent is left with
adjustBuffer(bufferPercent, delta) ==
    LET newValue == bufferPercent + delta
    IN  IF newValue >= 0 /\ newValue <= MaxBuffer THEN newValue ELSE bufferPercent

\* TierDisplay.handleBufferInput: the values setBufferPercent may be left with
handleBufferInput(bufferPercent, e) ==
    IF ~e.nan /\ e.v >= 0 /\ e.v <= 10 * MaxBuffer THEN RoundToTenths(e.v)
    ELSE {bufferPercent}

\* BufferSelector.adjustValue and handleInputChange, the selector being given
\* bufferPercent as value and setBufferPercent as onChange
adjustValue(value, delta) ==
    LET newValue == value + delta
    IN  IF newValue >= 0 /\ newValue <= MaxBuffer THEN newValue ELSE value

handleInputChange(value, e) ==
    IF ~e.nan /\ e.v >= 0 /\ e.v <= 10 * MaxBuffer THEN RoundToTenths(e.v)
    ELSE {value}

\* what parseFloat(e.target.value) may be: NaN, or a number of hundredths
InputValues ==
    {[nan |-> TRUE, v |-> 0]}
        \cup {[nan |-> FALSE, v |-> h] :
                  h \in {-10, -1, 0, 4, 5, 250, 9994, 9995, 9996, 10000, 10001, 15000}}
Deltas == {1, -1}          \* +0.1 and -0.1

\* the first render of a browser that holds no persisted value
InitBuffer ==
    /\ display = [bufferPercent |-> InitialBuffer(NoString), saved |-> NoString,
                  event |-> [NoEvent EXCEPT !.op = "mount"]]
    /\ leaderboard = NotMounted
    /\ stakedAmount = 0 /\ totalStaked = 0 /\ decimals = DefaultDecimals
    /\ tiers = <<>> /\ out = NoCall
    /\ tokenString = NoString /\ parsed = NotParsed

\* React runs the effects of a render before it handles the next event
EffectsFlushed == display.saved = toString(display.bufferPercent)
BufferFrame == UNCHANGED <<Inputs, out, ParserState, leaderboard>>

AdjustBuffer ==
    \E delta \in Deltas :
        /\ EffectsFlushed
        /\ display' = [display EXCEPT
                         !.bufferPercent = adjustBuffer(display.bufferPercent, delta),
                         !.event = [op |-> "adjustBuffer", nan |-> FALSE, v |-> 10 * delta]]
        /\ BufferFrame

HandleBufferInput ==
    \E e \in InputValues :
    \E b \in handleBufferInput(display.bufferPercent, e) :
        /\ EffectsFlushed
        /\ display' = [display EXCEPT
                         !.bufferPercent = b,
                         !.event = [op |-> "handleBufferInput", nan |-> e.nan, v |-> e.v]]
        /\ BufferFrame

AdjustValue ==
    \E delta \in Deltas :
        /\ EffectsFlushed
        /\ display' = [display EXCEPT
                         !.bufferPercent = adjustValue(display.bufferPercent, delta),
                         !.event = [op |-> "adjustValue", nan |-> FALSE, v |-> 10 * delta]]
        /\ BufferFrame

HandleInputChange ==
    \E e \in InputValues :
    \E b \in handleInputChange(display.bufferPercent, e) :
        /\ EffectsFlushed
        /\ display' = [display EXCEPT
                         !.bufferPercent = b,
                         !.event = [op |-> "handleInputChange", nan |-> e.nan, v |-> e.v]]
        /\ BufferFrame

\* the effect on [bufferPercent]: localStorage.setItem(..., toString())
SaveBuffer ==
    /\ ~EffectsFlushed
    /\ display' = [display EXCEPT !.saved = toString(display.bufferPercent),
                                  !.event = [NoEvent EXCEPT !.op = "save"]]
    /\ BufferFrame

\* the page is loaded again: the initializer reads the persisted value
Reload ==
    /\ display' = [display EXCEPT !.bufferPercent = InitialBuffer(display.saved),
                                  !.event = [NoEvent EXCEPT !.op = "reload"]]
    /\ BufferFrame

NextBuffer ==
    \/ AdjustBuffer
    \/ HandleBufferInput
    \/ AdjustValue
    \/ HandleInputChange
    \/ SaveBuffer
    \/ Reload

SpecBuffer == InitBuffer /\ [][NextBuffer]_vars

\* ------------------------------------------------------------ Leaderboard
\* leaderboard.isLoading is the state of the component; closureIsLoading is
\* the isLoading of the render whose loadLeaderboardData the two effects with
\* the dependencies [] hold: they run once, after the first render, and the
\* interval keeps calling that one function. pending holds the calls of
\* fetchData that have not settled, shown the call whose rows are displayed.
MaxTicks == 4

\* what useContractData.fetchData resolves to: a record with stakes and
\* pools, or null (no session, or a request that failed)
FetchResults == {"data", "null"}

\* loadLeaderboardData up to its await: the guard, setIsLoading(true) and
\* the call of fetchData
loadLeaderboardData(lb) ==
    IF lb.closureIsLoading THEN lb
    ELSE [lb EXCEPT !.isLoading = TRUE,
                    !.started = @ + 1,
                    !.pending = @ \cup {lb.started + 1}]

\* loadLeaderboardData after its await: the rows are shown when there is
\* data, and finally setIsLoading(false)
FetchSettled(lb, id, result) ==
    [lb EXCEPT !.pending = @ \ {id},
               !.shown = IF result = "data" THEN id ELSE @,
               !.isLoading = FALSE]

InitLeaderboard ==
    /\ leaderboard = NotMounted
    /\ display = NotDisplayed
    /\ stakedAmount = 0 /\ totalStaked = 0 /\ decimals = DefaultDecimals
    /\ tiers = <<>> /\ out = NoCall
    /\ tokenString = NoString /\ parsed = NotParsed

LeaderboardFrame == UNCHANGED <<Inputs, out, ParserState, display>>

\* the first render and its effects: the initial load, and the interval
Mount ==
    /\ leaderboard = NotMounted
    /\ leaderboard' = loadLeaderboardData(
                          [leaderboard EXCEPT !.mounted = TRUE,
                                              !.closureIsLoading = leaderboard.isLoading])
    /\ LeaderboardFrame

\* the interval of 120 seconds fires
IntervalFires ==
    /\ leaderboard.mounted
    /\ leaderboard.ticks < MaxTicks
    /\ leaderboard' = [loadLeaderboardData(leaderboard) EXCEPT !.ticks = @ + 1]
    /\ LeaderboardFrame

\* a call of fetchData settles
FetchCompletes ==
    \E id \in leaderboard.pending :
    \E result \in FetchResults :
        /\ leaderboard' = FetchSettled(leaderboard, id, result)
        /\ LeaderboardFrame

\* the component is removed: clearInterval
Unmount ==
    /\ leaderboard.mounted
    /\ leaderboard' = [leaderboard EXCEPT !.mounted = FALSE]
    /\ LeaderboardFrame

NextLeaderboard ==
    \/ Mount
    \/ IntervalFires
    \/ FetchCompletes
    \/ Unmount

SpecLeaderboard == InitLeaderboard /\ [][NextLeaderboard]_vars

\* ------------------------------------------------------------- properties
\* the caller's table in ascending order, and a tier's index in it (0-based,
\* -1 when absent)
Sorted == SortTiers(tiers)
IndexOf(t) == findIndex(Sorted, t.tier)
Threshold(i) == At(Sorted, i).pct
LastIndex == Len(Sorted) - 1

\* the share stake/total compared with a threshold (tenths of a percent),
\* for total > 0
ShareOf(stake, total) == [s |-> stake, p |-> total]
ShareEq(sh, th) == 100 * PercentScale * sh.s = th * sh.p
ShareLt(sh, th) == 100 * PercentScale * sh.s < th * sh.p
ShareGt(sh, th) == 100 * PercentScale * sh.s > th * sh.p
Share == ShareOf(stakedAmount, totalStaked)

\* the table was passed in ascending order
PassedSorted == tiers = Sorted

\* C1: when the share exactly equals the threshold of tier i of an ascending
\* table with distinct thresholds, determineTier returns tier i itself.
C1_BoundaryInclusive ==
    (out.op = "determineTier" /\ PassedSorted /\ totalStaked > 0)
        => \A i \in 0..LastIndex :
               ShareEq(Share, Threshold(i)) => out.tier = At(Sorted, i)

\* C2: a non-zero stake whose share lies strictly between the threshold of
\* tier i-1 (0 for the lowest tier) and that of tier i resolves to tier i.
C2_BracketIsUpperBound ==
    (out.op = "determineTier" /\ PassedSorted /\ totalStaked > 0 /\ stakedAmount > 0)
        => \A i \in 0..LastIndex :
               ( /\ ShareLt(Share, Threshold(i))
                 /\ (i > 0 => ShareGt(Share, Threshold(i - 1))) )
               => out.tier = At(Sorted, i)

\* the record calculateTierProgress returned, when that was the call
Result == out.progress
Returned == out.op = "calculateTierProgress" /\ ~Result.isNull
HasNext == Result.nextTier # Undefined

\* the tier resolved after a gross deposit of x units: the stake grows by
\* x * (1 - feeRate), the pool by x
TierAfterDeposit(x) ==
    TierForPercent([n |-> 1000 * stakedAmount + (1000 - FeeRateMille) * x,
                    d |-> 10 * (totalStaked + x)], tiers)

\* the target threshold can be reached by a finite deposit: t < 1 - feeRate
\* (thresholds and the fee rate are both counted in thousandths)
Reachable(th) == th < 100 * PercentScale - FeeRateMille

\* C3: depositing the additional amount the aggregator reports and resolving
\* again gives a tier at or above the original next tier (stated for a
\* non-zero stake and a positive amount toward a threshold a finite deposit
\* can reach).
C3_DepositReachesNextTier ==
    ( /\ Returned /\ HasNext /\ stakedAmount > 0
      /\ Result.additionalAmountNeeded.k = "num"
      /\ Result.additionalAmountNeeded.v > 0
      /\ Reachable(Result.nextTier.pct) )
    => IndexOf(TierAfterDeposit(Result.additionalAmountNeeded.v))
           >= IndexOf(Result.nextTier)

\* C4: withdrawing exactly the safe unstake amount and resolving again gives
\* the tier index resolved before the withdrawal (stated for a stake that is
\* part of the pool, stake <= pool total).
C4_WithdrawalKeepsTier ==
    (Returned /\ stakedAmount <= totalStaked)
    => IndexOf(determineTier(stakedAmount - Result.safeUnstakeAmount,
                             totalStaked - Result.safeUnstakeAmount, tiers))
           = IndexOf(Result.currentTier)

\* C5: for a fixed pool total and tier table, the index of the resolved tier
\* never decreases when the stake increases (zero stake and stake above the
\* pool total included).
C5_ResolverMonotone ==
    out.op = "determineTier"
    => \A a \in {k * StepOf(decimals) : k \in 0..MaxStake} :
           /\ a <= stakedAmount
                => IndexOf(determineTier(a, totalStaked, tiers)) <= IndexOf(out.tier)
           /\ a >= stakedAmount
                => IndexOf(determineTier(a, totalStaked, tiers)) >= IndexOf(out.tier)

\* a stake above the pool total resolves above the tier of the zero stake
C5_Witness ==
    /\ out.op = "determineTier"
    /\ totalStaked > 0 /\ stakedAmount > totalStaked
    /\ IndexOf(out.tier) >= 1
    /\ IndexOf(determineTier(0, totalStaked, tiers)) = 0

\* C6: toward a threshold t < 1 - feeRate the additional amount is never
\* smaller than X = (t * poolTotal - stake) / ((1 - feeRate) - t) (stated for
\* a non-zero stake).
C6_RequirementNeverUnderestimated ==
    ( /\ Returned /\ HasNext /\ stakedAmount > 0
      /\ Reachable(Result.nextTier.pct)
      /\ Result.additionalAmountNeeded.k = "num" )
    => Result.additionalAmountNeeded.v
           * (100 * PercentScale - FeeRateMille - Result.nextTier.pct)
       >= Result.nextTier.pct * totalStaked - 100 * PercentScale * stakedAmount

\* C7: toward a next-tier threshold t >= 1 - feeRate that the share has not
\* attained, the solver reports the unreachable outcome, never a finite amount.
C7_UnreachableIsReported ==
    ( /\ out.op = "calculateAmountForNextTier"
      /\ totalStaked > 0 /\ stakedAmount > 0
      /\ IndexOf(out.nextTier)
             = IndexOf(determineTier(stakedAmount, totalStaked, tiers)) + 1
      /\ ~Reachable(out.nextTier.pct)
      /\ ShareLt(Share, out.nextTier.pct) )
    => out.amount = Infinity

\* the lower boundary b of the tier given to calculateSafeUnstakeAmount, in
\* thousandths, when that tier has a previous tier
SafeCall == out.op = "calculateSafeUnstakeAmount"
HasLowerBoundary ==
    /\ SafeCall /\ IndexOf(out.currentTier) > 0
    /\ stakedAmount > 0 /\ totalStaked > 0
LowerBoundary == Threshold(IndexOf(out.currentTier) - 1)

\* m is x = n/d (d > 0) floored to the token's precision: the largest
\* multiple of the step that is <= x
IsFlooredTo(m, n, d) ==
    /\ m % StepOf(decimals) = 0
    /\ m * d <= n
    /\ (m + StepOf(decimals)) * d > n

C9_SafeAmountWithinStake ==
    /\ SafeCall
         => /\ out.amount.k = "num"
            /\ 0 <= out.amount.v /\ out.amount.v <= stakedAmount
            /\ stakedAmount = 0 => out.amount.v = 0
    /\ Returned
         => /\ 0 <= Result.safeUnstakeAmount
            /\ Result.safeUnstakeAmount <= stakedAmount
            /\ stakedAmount = 0 => Result.safeUnstakeAmount = 0

\* a call above the lowest tier whose stake does not cover the minimum the
\* formula asks for, so that the amount is floored at 0
C9_Witness ==
    /\ HasLowerBoundary /\ LowerBoundary < 100 * PercentScale
    /\ stakedAmount * (100 * PercentScale - LowerBoundary) < LowerBoundary * totalStaked
    /\ out.amount.v = 0

\* C10: for a non-zero pool and a non-empty table, the progress of a returned
\* record is a number in [0, 100].
C10_ProgressInRange ==
    (Returned /\ tiers # <<>> /\ totalStaked > 0)
    => /\ Result.progress.d > 0
       /\ 0 <= Result.progress.n
       /\ Result.progress.n <= 100 * Result.progress.d

\* a record whose share lies below the current tier's own threshold, where
\* the unclamped quotient is negative
C10_Witness ==
    /\ Returned /\ HasNext
    /\ ShareLt(Share, Result.currentTier.pct)
    /\ Result.progress = Frac(0, 1)

\* C11: when a next tier exists and the two thresholds differ, progress is
\* ((share - currentTier threshold) / (nextTier threshold - currentTier
\* threshold)) * 100 clamped to [0, 100], currentTier being what determineTier
\* returns for the same inputs; a share equal to the current tier's threshold
\* gives progress 0.
C11_ProgressFormula ==
    (Returned /\ HasNext /\ Result.nextTier.pct # Result.currentTier.pct)
    => LET cur == determineTier(stakedAmount, totalStaked, tiers)
           num == 100 * (100 * PercentScale * stakedAmount - cur.pct * totalStaked)
           den == totalStaked * (Result.nextTier.pct - cur.pct)
       IN  /\ Result.currentTier = cur
           /\ den > 0
           /\ Result.progress = IF num < 0 THEN Frac(0, 1)
                                ELSE IF num > 100 * den THEN Frac(100, 1)
                                ELSE Frac(num, den)
           /\ ShareEq(Share, cur.pct) => Result.progress.n = 0

\* a record above the lowest tier whose progress lies strictly inside (0, 100)
C11_Witness ==
    /\ Returned /\ HasNext
    /\ IndexOf(Result.currentTier) >= 1
    /\ 0 < Result.progress.n
    /\ Result.progress.n < 100 * Result.progress.d

\* C12: when the pool total is 0 or the stake is 0, determineTier returns the
\* tier of the smallest threshold, whatever the order of the table passed
\* (a non-empty table).
C12_DegenerateIsLowest ==
    (out.op = "determineTier" /\ tiers # <<>> /\ (totalStaked = 0 \/ stakedAmount = 0))
    => /\ \E i \in 1..Len(tiers) : out.tier = tiers[i]
       /\ \A i \in 1..Len(tiers) : out.tier.pct <= tiers[i].pct

\* an empty pool resolved against a table whose first tier is not the lowest
C12_Witness ==
    /\ out.op = "determineTier"
    /\ totalStaked = 0
    /\ Len(tiers) >= 2 /\ tiers[1].pct > tiers[2].pct
    /\ out.tier # tiers[1]

\* the hook's result, when the hook was the call
HookCall == out.op = "useTierCalculation"
HookReturned == HookCall /\ ~out.progress.isNull

\* C13: when the pool total parses to 0, calculateTierProgress returns null,
\* and so does the useTierCalculation hook that wraps it; neither returns a
\* record filled with defaults. (The parsed amounts are never NaN.)
C13_ZeroPoolIsNull ==
    /\ (out.op = "calculateTierProgress" /\ totalStaked = 0) => Result = Null
    /\ (HookCall /\ totalStaked = 0) => out.progress = Null

\* the hook called with both snapshots, a table, a stored tier of the table
\* and a stake, on an empty pool
C13_Witness ==
    /\ HookCall /\ out.loaded
    /\ totalStaked = 0 /\ stakedAmount > 0
    /\ out.storedTier \in 1..Len(tiers)
    /\ out.progress.isNull

\* C14: when the share is strictly greater than every threshold of the
\* table, determineTier returns the highest tier.
C14_AboveAllIsHighest ==
    ( /\ out.op = "determineTier" /\ tiers # <<>> /\ totalStaked > 0
      /\ \A i \in 0..LastIndex : ShareGt(Share, Threshold(i)) )
    => out.tier = At(Sorted, LastIndex)

\* a share above each of the thresholds of a table of several tiers passed
\* with its highest tier first
C14_Witness ==
    /\ out.op = "determineTier" /\ totalStaked > 0
    /\ Len(tiers) >= 2 /\ tiers[1] = At(Sorted, LastIndex)
    /\ \A i \in 0..LastIndex : ShareGt(Share, Threshold(i))
    /\ out.tier = tiers[1]

\* C15: in every record the useTierCalculation hook returns, currentTier is
\* the tier determineTier returns for the same inputs; a different tier stored
\* on the stake record never replaces it.
C15_ResolverIsSourceOfTruth ==
    HookReturned
    => out.progress.currentTier = determineTier(stakedAmount, totalStaked, tiers)

\* C16: in every record calculateTierProgress returns, currentTier is what
\* determineTier returns for the same inputs, nextTier is the element right
\* after it in the ascending table (absent exactly when currentTier is the
\* last) and prevTier the element right before it (absent exactly when
\* currentTier is the first).
C16_NeighboursAreAdjacent ==
    Returned
    => LET i == IndexOf(Result.currentTier)
       IN  /\ Result.currentTier = determineTier(stakedAmount, totalStaked, tiers)
           /\ i \in 0..LastIndex
           /\ (Result.nextTier = Undefined) <=> (i = LastIndex)
           /\ i < LastIndex => Result.nextTier = At(Sorted, i + 1)
           /\ (Result.prevTier = Undefined) <=> (i = 0)
           /\ i > 0 => Result.prevTier = At(Sorted, i - 1)

\* a record with both neighbours, from a table passed out of order
C16_Witness ==
    /\ Returned /\ ~PassedSorted
    /\ Result.nextTier # Undefined /\ Result.prevTier # Undefined
    /\ Result.prevTier.pct < Result.currentTier.pct
    /\ Result.currentTier.pct < Result.nextTier.pct

\* C17: isTierUpgradeAvailable returns true exactly when the index of the
\* stored tier in the ascending table is strictly lower than the index of the
\* tier determineTier resolves, and false otherwise, the stored tier being the
\* highest included.
C17_UpgradeIffStoredBelowResolved ==
    out.op = "isTierUpgradeAvailable"
    => LET storedIndex == findIndex(Sorted, out.storedTier)
           resolvedIndex == IndexOf(determineTier(stakedAmount, totalStaked, tiers))
       IN  /\ out.available <=> (storedIndex < resolvedIndex)
           /\ storedIndex = LastIndex => ~out.available

\* a stored tier of the table below the resolved one, for a stake that is part
\* of the pool
C17_Witness ==
    /\ out.op = "isTierUpgradeAvailable"
    /\ 0 < stakedAmount /\ stakedAmount <= totalStaked
    /\ findIndex(Sorted, out.storedTier) >= 0
    /\ findIndex(Sorted, out.storedTier)
           < IndexOf(determineTier(stakedAmount, totalStaked, tiers))
    /\ out.available

\* the amount literal of the string handed to the parser
AmountLiteral ==
    IF Falsy(tokenString) THEN tokenString ELSE split(trim(tokenString), " ", 0)

\* the string is undefined or empty, or its amount literal is not a number
Malformed == Falsy(tokenString) \/ parseFloat(AmountLiteral) = NaN

\* C18: for every malformed or empty balance string (undefined, empty, a
\* non-numeric literal, a non-numeric literal containing '.'),
\* parseTokenString returns exactly amount 0, symbol "WAX" and decimals 8.
C18_MalformedGivesDefault ==
    (parsed.done /\ Malformed) => parsed = DefaultToken

\* C19: when the current tier has no previous tier and the stake is positive,
\* the safe unstake amount is the stake minus the smallest unit of the
\* token's precision, and it is not negative (stated for a non-empty pool).
C19_LowestTierKeepsOneUnit ==
    ( /\ SafeCall /\ IndexOf(out.currentTier) = 0
      /\ stakedAmount > 0 /\ totalStaked > 0 )
    => /\ out.amount.v = stakedAmount - StepOf(decimals)
       /\ out.amount.v >= 0

\* C20: whenever the tier determineTier resolves has no next tier, the
\* progress calculateTierProgress reports is exactly 100.
C20_CeilingIsFull ==
    (Returned /\ IndexOf(determineTier(stakedAmount, totalStaked, tiers)) = LastIndex)
    => Result.progress.n = 100 * Result.progress.d

\* the highest of several tiers resolved for a stake that is part of the pool
C20_Witness ==
    /\ Returned /\ Len(tiers) >= 2
    /\ stakedAmount <= totalStaked
    /\ IndexOf(Result.currentTier) = LastIndex
    /\ Result.progress = Frac(100, 1)

\* the record the hook returned
HookResult == out.progress

\* C21: in every record useTierCalculation returns, safeUnstakeAmount,
\* additionalAmountNeeded, totalAmountForNext and progress are the ones
\* computed for the currentTier, nextTier and prevTier that the record
\* reports.
C21_HookRecordIsCoherent ==
    HookReturned
    => LET r == HookResult
           additional == IF r.nextTier # Undefined
                         THEN calculateAmountForNextTier(
                                  stakedAmount, totalStaked, r.currentTier,
                                  r.nextTier, decimals)
                         ELSE Absent
       IN  /\ r.safeUnstakeAmount
                 = calculateSafeUnstakeAmount(stakedAmount, decimals, totalStaked,
                                              tiers, r.currentTier)
           /\ r.additionalAmountNeeded = additional
           /\ r.totalAmountForNext
                 = IF additional.k = "num" THEN Num(stakedAmount + additional.v)
                   ELSE additional
           /\ r.progress \in
                 {ProgressOf(stakedAmount, totalStaked, r.currentTier, r.nextTier),
                  AdjustedProgress(stakedAmount, totalStaked, r.currentTier,
                                   r.prevTier, r.nextTier)}

\* the deposit X that solves (stake + X * (1 - feeRate)) / (poolTotal + X) = t
\* for the target threshold th (thousandths), 0 when the share is already
\* there; written over the numerator that withFee uses
GrossDepositSolution(th) ==
    LET one == 100 * PercentScale
        an == th * totalStaked - one * stakedAmount
    IN  IF an > 0 THEN Frac(one * an, one * (one - FeeRateMille - th))
        ELSE Frac(0, 1)

\* C22: for every stake, pool total and target threshold t < 1 - feeRate, the
\* fee-free shortfall grossed up by 1 / (1 - feeRate), as the solver computes
\* it, is the same deposit as the solution X with the fee applied to the gross
\* deposit.
C22_FeeFramingsAgree ==
    (out.op = "calculateAmountForNextTier" /\ Reachable(out.nextTier.pct))
    => LET b == withFee(stakedAmount, totalStaked, out.nextTier)
           a == GrossDepositSolution(out.nextTier.pct)
       IN  /\ a.n = b.n
           /\ a.n # 0 => a.d = b.d

\* the tier determineTier returned is one of the caller's table
IsTierOfTable(t) == \E i \in 1..Len(tiers) : t = tiers[i]

\* what holds of the three solvers in C23: each returns, the amounts being
\* numbers (Infinity included) and the aggregate a record or null
SolversReturn ==
    /\ out.op = "calculateSafeUnstakeAmount"
         => ~out.raised /\ out.amount.k = "num" /\ out.amount.v >= 0
    /\ out.op = "calculateAmountForNextTier"
         => ~out.raised /\ out.amount.k \in {"num", "inf"}
    /\ out.op = "calculateTierProgress"
         => ~out.raised /\ (out.progress.isNull => out.progress = Null)

C24_UnknownTierIsNull ==
    ( /\ out.op = "calculateTierProgress"
      /\ IndexOf(determineTier(stakedAmount, totalStaked, tiers)) = -1 )
    => out.progress = Null

\* the aggregate of a stake in a non-empty pool, asked for an empty table
C24_Witness ==
    /\ out.op = "calculateTierProgress"
    /\ tiers = <<>> /\ totalStaked > 0 /\ stakedAmount > 0
    /\ out.progress.isNull

\* C25: when a next tier exists and its threshold equals the threshold of the
\* current tier, the progress reported is exactly 100.
C25_ZeroWidthIsFull ==
    (Returned /\ HasNext /\ Result.nextTier.pct = Result.currentTier.pct)
    => Result.progress = Frac(100, 1)

\* a record of a non-zero stake whose next tier shares the current threshold
C25_Witness ==
    /\ Returned /\ HasNext
    /\ stakedAmount > 0
    /\ Result.nextTier.pct = Result.currentTier.pct
    /\ Result.nextTier.tier # Result.currentTier.tier
    /\ Result.progress = Frac(100, 1)

\* the amount literal is digits, or digits '.' digits with any number of
\* fractional digits
LiteralRest == SubSeq(AmountLiteral, Len(DigitPrefix(AmountLiteral)) + 1,
                      Len(AmountLiteral))
WellFormed ==
    /\ ~Falsy(tokenString)
    /\ DigitPrefix(AmountLiteral) # <<>>
    /\ \/ LiteralRest = <<>>
       \/ Head(LiteralRest) = "." /\ DigitPrefix(Tail(LiteralRest)) = Tail(LiteralRest)
FractionDigits == IF LiteralRest = <<>> THEN 0 ELSE Len(LiteralRest) - 1

\* C26: for every well-formed balance string, decimals is the number of
\* digits after the decimal point of the literal, and the default 8 when the
\* literal has no fractional part (no '.', or a '.' followed by no digit).
C26_DecimalsOfLiteral ==
    (parsed.done /\ WellFormed)
    => parsed.decimals = IF FractionDigits > 0 THEN FractionDigits
                         ELSE DefaultDecimals

Reorderings ==
    {[i \in 1..Len(tiers) |-> tiers[p[i]]] : p \in Permutations(1..Len(tiers))}

\* C28: for a table with distinct thresholds, determineTier returns the same
\* tier, and calculateTierProgress the same current, next and previous tiers
\* (or null alike), for every order in which the table is passed, the empty
\* pool included.
C28_OrderIndependent ==
    /\ out.op = "determineTier"
         => \A t \in Reorderings :
                determineTier(stakedAmount, totalStaked, t) = out.tier
    /\ out.op = "calculateTierProgress"
         => \A t \in Reorderings :
                LET r == calculateTierProgress(stakedAmount, decimals, totalStaked, t)
                IN  /\ r.isNull = Result.isNull
                    /\ r.currentTier = Result.currentTier
                    /\ r.nextTier = Result.nextTier
                    /\ r.prevTier = Result.prevTier

\* the aggregate of a table of three tiers passed in descending order, whose
\* record names the middle one as current
C28_Witness ==
    /\ Returned /\ Len(tiers) >= 3
    /\ tiers[1].pct > tiers[2].pct /\ tiers[2].pct > tiers[3].pct
    /\ Result.currentTier = tiers[2]
    /\ Result.nextTier = tiers[1] /\ Result.prevTier = tiers[3]

\* the last event asked for a value outside [0, 100], or for no number
AsksOutOfRange(before, e) ==
    \/ e.op \in {"adjustBuffer", "adjustValue"}
         /\ (10 * before + e.v < 0 \/ 10 * before + e.v > 10 * MaxBuffer)
    \/ e.op \in {"handleBufferInput", "handleInputChange"}
         /\ (e.nan \/ e.v < 0 \/ e.v > 10 * MaxBuffer)

\* C29: from the default 5.0, after any sequence of adjustBuffer(+0.1 / -0.1)
\* and handleBufferInput events (and of the same events of BufferSelector),
\* of saves and of reloads restoring the persisted value, bufferPercent is a
\* number in [0, 100], and an event that would leave the range leaves the
\* value as it was.
C29_BufferInRange ==
    /\ [](0 <= display.bufferPercent /\ display.bufferPercent <= MaxBuffer)
    /\ [][AsksOutOfRange(display.bufferPercent, display'.event)
            => display'.bufferPercent = display.bufferPercent]_vars

\* adjustBuffer(+0.1) refused at 100, the value 100 having been persisted
C29_Witness ==
    /\ display.event.op = "adjustBuffer" /\ display.event.v = 10
    /\ display.bufferPercent = MaxBuffer
    /\ display.saved = <<"1", "0", "0">>

\* C30: across the initial load and every firing of the refresh interval at
\* most one fetch of loadLeaderboardData is in flight at any time.
C30_SingleFlight == Cardinality(leaderboard.pending) <= 1

====
